---- MODULE Spec2Model ----
(***************************************************************************)
(* A model of the resume PDF layout engine, src/src/lib/buildResumePdf.ts. *)
(*                                                                         *)
(* Strings are sequences of UTF-16 code units (integers).  Lengths are     *)
(* integers in units of 1/2000 pt, so that every product of a font size    *)
(* (8.5, 9, 9.5, 11, 22 pt), a line-height multiplier (1.3 .. 1.55, 0.3 .. *)
(* 0.5) and a glyph width (1/1000 em) is exact.  The source computes in    *)
(* IEEE doubles; the model computes the same quantities exactly.           *)
(***************************************************************************)
EXTENDS Integers, Sequences, FiniteSets, TLC

VARIABLES
    text,       \* pure-function specifications: the input string
    wrapArgs,   \* pure-function specifications: wrapWords' font, size, maxWidth
    result,     \* pure-function specifications: the value returned
    stage,      \* pure-function specifications: "input", then the function applied
    y,          \* build: the cursor's y, the top of the next line slot
    pages,      \* build: the number of pages of the document; the cursor is on the last
    secKey,     \* build: the key of the section being rendered
    need,       \* build: where the loop over the section's lines stands
    todo,       \* build: the item being drawn and its next operation
    did,        \* build: the operation the last step ran
    drawn,      \* build: the draw calls the last step made, in order
    prev,       \* build: the last draw call made before the last step
    count,      \* build: sections started, lines of the section taken
    reqs,       \* route: each POST /api/analyze request's position and locals
    profile,    \* route: the user's row of public.profiles, or NoProfile
    analyses,   \* route: the requests whose row public.analyses holds
    clock,      \* route: the calendar day
    served      \* route: per day, the analyses the user was given

textVars == <<text, wrapArgs, result, stage>>

buildVars == <<y, pages, secKey, need, todo, did, drawn, prev, count>>

routeVars == <<reqs, profile, analyses, clock, served>>

vars == <<text, wrapArgs, result, stage, y, pages, secKey, need, todo, did, drawn, prev, count,
          reqs, profile, analyses, clock, served>>

\* Units per PDF point.
Pt == 2 * 1000

None == <<"none">>

(***************************************************************************)
(* Sequence helpers.                                                       *)
(***************************************************************************)
\* The concatenation of a sequence of sequences (by halves: the depth of
\* the recursion stays logarithmic on long texts).
RECURSIVE Flatten(_)
Flatten(ss) ==
    IF ss = <<>> THEN <<>>
    ELSE IF Len(ss) = 1 THEN ss[1]
    ELSE LET mid == Len(ss) \div 2
         IN  Flatten(SubSeq(ss, 1, mid)) \o Flatten(SubSeq(ss, mid + 1, Len(ss)))

\* All sequences over S of length at most n.
StrsUpTo(S, n) == UNION {[1..k -> S] : k \in 0..n}

RECURSIVE SumSeq(_)
SumSeq(ns) ==
    IF ns = <<>> THEN 0
    ELSE IF Len(ns) = 1 THEN ns[1]
    ELSE LET mid == Len(ns) \div 2
         IN  SumSeq(SubSeq(ns, 1, mid)) + SumSeq(SubSeq(ns, mid + 1, Len(ns)))

(***************************************************************************)
(* sanitize: nine String.prototype.replace passes with global regexes,     *)
(* each over single code units, applied in the source's order.             *)
(***************************************************************************)
\* text.replace(/[set]/g, rep); a text without a match is returned as it is.
ReplaceAll(s, set, rep) ==
    IF \A i \in DOMAIN s : s[i] \notin set THEN s
    ELSE Flatten([i \in 1..Len(s) |-> IF s[i] \in set THEN rep ELSE <<s[i]>>])

\* text.replace(/[^\x00-\xFF]/g, "")
DropNonLatin1(s) ==
    IF \A i \in DOMAIN s : s[i] \in 0..255 THEN s
    ELSE Flatten([i \in 1..Len(s) |-> IF s[i] \in 0..255 THEN <<s[i]>> ELSE <<>>])

\* A sanitize whose ellipsis rule emits three middle dots, which the earlier
\* bullet / middle dot pass has already gone past.
sanitize_ellipsisAsDots(t) ==
    LET s1 == ReplaceAll(t,  {8216, 8217}, <<39>>)
        s2 == ReplaceAll(s1, {8220, 8221}, <<34>>)
        s3 == ReplaceAll(s2, {8212}, <<32, 45, 32>>)
        s4 == ReplaceAll(s3, {8211}, <<45>>)
        s5 == ReplaceAll(s4, {8226, 183}, <<45>>)
        s6 == ReplaceAll(s5, {8230}, <<183, 183, 183>>)
        s7 == ReplaceAll(s6, {8482}, <<40, 84, 77, 41>>)
        s8 == ReplaceAll(s7, {174}, <<40, 82, 41>>)
    IN  DropNonLatin1(s8)

sanitize(t) ==
    LET s1 == ReplaceAll(t,  {8216, 8217}, <<39>>)        \* smart single quotes -> '
        s2 == ReplaceAll(s1, {8220, 8221}, <<34>>)        \* smart double quotes -> "
        s3 == ReplaceAll(s2, {8212}, <<32, 45, 32>>)      \* em dash -> " - "
        s4 == ReplaceAll(s3, {8211}, <<45>>)              \* en dash -> "-"
        s5 == ReplaceAll(s4, {8226, 183}, <<45>>)         \* bullet, middle dot -> "-"
        s6 == ReplaceAll(s5, {8230}, <<46, 46, 46>>)      \* ellipsis -> "..."
        s7 == ReplaceAll(s6, {8482}, <<40, 84, 77, 41>>)  \* trademark -> "(TM)"
        s8 == ReplaceAll(s7, {174}, <<40, 82, 41>>)       \* registered -> "(R)"
    IN  DropNonLatin1(s8)

(***************************************************************************)
(* JavaScript's white space: what /\s/ matches and String.prototype.trim   *)
(* strips.                                                                 *)
(***************************************************************************)
IsSpace(c) ==
    \/ c \in {9, 10, 11, 12, 13, 32, 160, 5760, 8232, 8233, 8239, 8287, 12288, 65279}
    \/ c \in 8192..8202

RECURSIVE TrimStart(_)
TrimStart(s) ==
    IF s # <<>> /\ IsSpace(Head(s)) THEN TrimStart(Tail(s)) ELSE s

RECURSIVE TrimEnd(_)
TrimEnd(s) ==
    IF s # <<>> /\ IsSpace(s[Len(s)]) THEN TrimEnd(SubSeq(s, 1, Len(s) - 1)) ELSE s

Trim(s) == TrimEnd(TrimStart(s))

\* s.split(sep) for a separator matching runs of the code units in seps,
\* followed by .filter(Boolean): the maximal runs of other code units, from
\* position from on.
RECURSIVE SplitRuns(_, _, _)
SplitRuns(s, seps, from) ==
    LET starts == {i \in from..Len(s) : s[i] \notin seps}
    IN  IF starts = {} THEN <<>>
        ELSE LET b == CHOOSE i \in starts : \A j \in starts : i <= j
                 stops == {i \in b..Len(s) : s[i] \in seps}
                 e == IF stops = {} THEN Len(s) + 1
                      ELSE CHOOSE i \in stops : \A j \in stops : i <= j
             IN  <<SubSeq(s, b, e - 1)>> \o SplitRuns(s, seps, e)

\* sanitize(text).split(/\s+/).filter(Boolean)
SplitWords(s) ==
    SplitRuns(s, {s[i] : i \in {j \in 1..Len(s) : IsSpace(s[j])}}, 1)

(***************************************************************************)
(* Font metrics: pdf-lib's standard fonts, glyph widths in 1/1000 em       *)
(* (Helvetica, Helvetica-Bold, Helvetica-Oblique AFM tables).  Kerning     *)
(* pairs are left out.                                                     *)
(***************************************************************************)
Fonts == {"regular", "bold", "italic"}

GlyphWidth(font, c) ==
    CASE c \in {32, 160}     -> 278
      [] c = 45              -> 333
      [] c \in {40, 41}      -> 333
      [] c = 42              -> 389
      [] c = 46              -> 278
      [] c = 58              -> IF font = "bold" THEN 333 ELSE 278
      [] c = 91 \/ c = 93    -> IF font = "bold" THEN 333 ELSE 278
      [] c = 124             -> IF font = "bold" THEN 280 ELSE 260
      [] c = 39              -> IF font = "bold" THEN 238 ELSE 191
      [] c = 34              -> IF font = "bold" THEN 474 ELSE 355
      [] c \in {65, 66}      -> IF font = "bold" THEN 722 ELSE 667
      [] c = 87              -> 944
      [] c = 97              -> 556
      [] c = 98              -> IF font = "bold" THEN 611 ELSE 556
      [] OTHER               -> 556

\* font.widthOfTextAtSize(t, size): the glyph widths' sum times size / 1000.
widthOfTextAtSize(font, t, size) ==
    (SumSeq([i \in 1..Len(t) |-> GlyphWidth(font, t[i])]) * size) \div 1000

\* The code units of U+0000-U+00FF that the WinAnsi encoding of pdf-lib's
\* standard fonts encodes; encoding any other code unit throws.
Encodable(c) == c \in (32..126) \cup (160..255)

\* font.widthOfTextAtSize(t, size) throws: it encodes t as it is.
MeasureThrows(t) == \E i \in DOMAIN t : ~Encodable(t[i])

\* page.drawText(t, ...) throws: before it encodes, drawText turns tabs and
\* U+0085 into spaces, removes \b and \v and splits t at line breaks.
DrawThrows(t) ==
    \E i \in DOMAIN t : ~Encodable(t[i]) /\ t[i] \notin {8, 9, 10, 11, 12, 13, 133}

(***************************************************************************)
(* wrapWords                                                               *)
(***************************************************************************)
\* `${current} ${word}`
JoinSpace(current, word) == current \o <<32>> \o word

\* A loop that measures the word alone instead of the candidate line.
RECURSIVE WrapLoop_measuresWord(_, _, _, _, _, _, _)
WrapLoop_measuresWord(words, i, current, lines, font, size, maxWidth) ==
    IF i > Len(words)
    THEN IF current # <<>> THEN Append(lines, current) ELSE lines
    ELSE LET word == words[i]
             candidate == IF current # <<>> THEN JoinSpace(current, word) ELSE word
         IN  IF widthOfTextAtSize(font, word, size) <= maxWidth
             THEN WrapLoop_measuresWord(words, i + 1, candidate, lines, font, size, maxWidth)
             ELSE WrapLoop_measuresWord(words, i + 1, word,
                           IF current # <<>> THEN Append(lines, current) ELSE lines,
                           font, size, maxWidth)

\* A loop that starts the new line without pushing the line it closes.
RECURSIVE WrapLoop_dropsClosedLine(_, _, _, _, _, _, _)
WrapLoop_dropsClosedLine(words, i, current, lines, font, size, maxWidth) ==
    IF i > Len(words)
    THEN IF current # <<>> THEN Append(lines, current) ELSE lines
    ELSE LET word == words[i]
             candidate == IF current # <<>> THEN JoinSpace(current, word) ELSE word
         IN  IF widthOfTextAtSize(font, candidate, size) <= maxWidth
             THEN WrapLoop_dropsClosedLine(words, i + 1, candidate, lines, font, size, maxWidth)
             ELSE WrapLoop_dropsClosedLine(words, i + 1, word, lines, font, size, maxWidth)

\* The for loop of wrapWords over words[i..], then the final push.
\* The loop of wrapWords with every word on a line of its own.
RECURSIVE WrapLoop_wordPerLine(_, _, _, _, _, _, _)
WrapLoop_wordPerLine(words, i, current, lines, font, size, maxWidth) ==
    IF i > Len(words)
    THEN IF current # <<>> THEN Append(lines, current) ELSE lines
    ELSE WrapLoop_wordPerLine(words, i + 1, words[i],
                              IF current # <<>> THEN Append(lines, current) ELSE lines,
                              font, size, maxWidth)

RECURSIVE WrapLoop(_, _, _, _, _, _, _)
WrapLoop(words, i, current, lines, font, size, maxWidth) ==
    IF i > Len(words)
    THEN IF current # <<>> THEN Append(lines, current) ELSE lines
    ELSE LET word == words[i]
             candidate == IF current # <<>> THEN JoinSpace(current, word) ELSE word
         IN  IF widthOfTextAtSize(font, candidate, size) <= maxWidth
             THEN WrapLoop(words, i + 1, candidate, lines, font, size, maxWidth)
             ELSE WrapLoop(words, i + 1, word,
                           IF current # <<>> THEN Append(lines, current) ELSE lines,
                           font, size, maxWidth)

\* A wrapWords that returns no line for a text without words.
wrapWords_noLine(t, font, size, maxWidth) ==
    LET words == SplitWords(sanitize(t))
    IN  IF Len(words) = 0 THEN <<>>
        ELSE WrapLoop(words, 1, <<>>, <<>>, font, size, maxWidth)

\* A wrapWords that splits and measures the text as given.
wrapWords_unsanitized(t, font, size, maxWidth) ==
    LET words == SplitWords(t)
    IN  IF Len(words) = 0 THEN << <<>> >>
        ELSE WrapLoop(words, 1, <<>>, <<>>, font, size, maxWidth)

wrapWords(t, font, size, maxWidth) ==
    LET words == SplitWords(sanitize(t))
    IN  IF Len(words) = 0 THEN << <<>> >>
        ELSE WrapLoop(words, 1, <<>>, <<>>, font, size, maxWidth)

\* wrapWords throws: the loop measures a candidate line that ends with a word
\* the font cannot encode.
WrapThrows(t) ==
    LET words == SplitWords(sanitize(t))
    IN  \E i \in DOMAIN words : MeasureThrows(words[i])

(***************************************************************************)
(* parseSections: the exec loop of /\[([A-Z]+)\]/g.  Positions are         *)
(* 1-based: a match at JavaScript index k is at position k + 1.            *)
(***************************************************************************)
IsUpper(c) == c \in 65..90

\* The length of the run of [A-Z] starting at position i.
RECURSIVE UpperRun(_, _)
UpperRun(t, i) ==
    IF i <= Len(t) /\ IsUpper(t[i]) THEN 1 + UpperRun(t, i + 1) ELSE 0

\* A match that takes lower-case letters too: /\[([A-Za-z]+)\]/.
MatchEnd_anyCase(t, i) ==
    LET RECURSIVE LetterRun(_)
        LetterRun(p) ==
            IF p <= Len(t) /\ t[p] \in (65..90) \cup (97..122) THEN 1 + LetterRun(p + 1) ELSE 0
    IN  IF i <= Len(t) /\ t[i] = 91
        THEN LET k == LetterRun(i + 1)
                 j == i + 1 + k
             IN  IF k >= 1 /\ j <= Len(t) /\ t[j] = 93 THEN j ELSE 0
        ELSE 0

\* The position of the "]" closing a match of \[([A-Z]+)\] that starts at i,
\* or 0 when the regex does not match there.
MatchEnd(t, i) ==
    IF i <= Len(t) /\ t[i] = 91
    THEN LET k == UpperRun(t, i + 1)
             j == i + 1 + k
         IN  IF k >= 1 /\ j <= Len(t) /\ t[j] = 93 THEN j ELSE 0
    ELSE 0

\* regex.exec(text) with regex.lastIndex at position from: the leftmost match
\* at or after it, or 0 (null).
RECURSIVE ExecFrom(_, _)
ExecFrom(t, from) ==
    IF from > Len(t) THEN 0
    ELSE IF MatchEnd(t, from) # 0 THEN from
    ELSE ExecFrom(t, from + 1)

\* A loop that pushes the contents without trimming them.
RECURSIVE ParseLoop_noTrim(_, _, _, _, _)
ParseLoop_noTrim(t, lastIndex, prevKey, prevEnd, sections) ==
    LET m == ExecFrom(t, lastIndex)
    IN  IF m = 0
        THEN IF prevKey # <<>>
             THEN Append(sections,
                         [key |-> prevKey, content |-> SubSeq(t, prevEnd, Len(t))])
             ELSE sections
        ELSE LET e == MatchEnd(t, m)
             IN  ParseLoop_noTrim(t, e + 1, SubSeq(t, m + 1, e - 1), e + 1,
                           IF prevKey # <<>>
                           THEN Append(sections,
                                       [key |-> prevKey,
                                        content |-> SubSeq(t, prevEnd, m - 1)])
                           ELSE sections)

\* A loop without the push after the last match: the last section is lost.
RECURSIVE ParseLoop_dropsLast(_, _, _, _, _)
ParseLoop_dropsLast(t, lastIndex, prevKey, prevEnd, sections) ==
    LET m == ExecFrom(t, lastIndex)
    IN  IF m = 0
        THEN sections
        ELSE LET e == MatchEnd(t, m)
             IN  ParseLoop_dropsLast(t, e + 1, SubSeq(t, m + 1, e - 1), e + 1,
                           IF prevKey # <<>>
                           THEN Append(sections,
                                       [key |-> prevKey,
                                        content |-> Trim(SubSeq(t, prevEnd, m - 1))])
                           ELSE sections)

RECURSIVE ParseLoop(_, _, _, _, _)
ParseLoop(t, lastIndex, prevKey, prevEnd, sections) ==
    LET m == ExecFrom(t, lastIndex)
    IN  IF m = 0
        THEN IF prevKey # <<>>
             THEN Append(sections,
                         [key |-> prevKey, content |-> Trim(SubSeq(t, prevEnd, Len(t)))])
             ELSE sections
        ELSE LET e == MatchEnd(t, m)
             IN  ParseLoop(t, e + 1, SubSeq(t, m + 1, e - 1), e + 1,
                           IF prevKey # <<>>
                           THEN Append(sections,
                                       [key |-> prevKey,
                                        content |-> Trim(SubSeq(t, prevEnd, m - 1))])
                           ELSE sections)

parseSections(t) == ParseLoop(t, 1, <<>>, 1, <<>>)

(***************************************************************************)
(* The section renderer's dispatch on the key (the if / else-if chain of   *)
(* buildResumePdf).                                                        *)
(***************************************************************************)
K_NAME       == <<78, 65, 77, 69>>
K_CONTACT    == <<67, 79, 78, 84, 65, 67, 84>>
K_SUMMARY    == <<83, 85, 77, 77, 65, 82, 89>>
K_EXPERIENCE == <<69, 88, 80, 69, 82, 73, 69, 78, 67, 69>>
K_EDUCATION  == <<69, 68, 85, 67, 65, 84, 73, 79, 78>>
K_SKILLS     == <<83, 75, 73, 76, 76, 83>>

KnownKeys == {K_NAME, K_CONTACT, K_SUMMARY, K_EXPERIENCE, K_EDUCATION, K_SKILLS}

SectionPolicy(key) ==
    CASE key = K_NAME       -> "name"
      [] key = K_CONTACT    -> "contact"
      [] key = K_SUMMARY    -> "summary"
      [] key = K_EXPERIENCE -> "experience"
      [] key = K_EDUCATION  -> "education"
      [] key = K_SKILLS     -> "skills"
      [] OTHER              -> "fallback"

(***************************************************************************)
(* Page constants and font sizes, in 1/2000 pt.                            *)
(***************************************************************************)
PAGE_W == 612 * Pt
PAGE_H == 792 * Pt
MARGIN_X == 58 * Pt
MARGIN_Y == 54 * Pt
CONTENT_W == PAGE_W - MARGIN_X * 2

SZ_NAME == 22 * Pt
SZ_SUBTITLE == 11 * Pt
SZ_CONTACT == (17 * Pt) \div 2
SZ_SECTION_HDR == (19 * Pt) \div 2
SZ_BODY == (19 * Pt) \div 2
SZ_BULLET == 9 * Pt

\* size * mult, the multiplier given in hundredths.
Times(size, hundredths) == (size * hundredths) \div 100

(***************************************************************************)
(* The page flow engine.  A cursor is [y, pages]: the page is the last one.*)
(***************************************************************************)
\* A needSpace that never starts a new page.
needSpace_never(cur, needed) == cur

\* A needSpace that moves the cursor to the top of the page it is on.
needSpace_samePage(cur, needed) ==
    IF cur.y - needed < MARGIN_Y
    THEN [y |-> PAGE_H - MARGIN_Y, pages |-> cur.pages]
    ELSE cur

\* A needSpace that starts a new page only once the cursor is under the margin.
needSpace_afterOverflow(cur, needed) ==
    IF cur.y < MARGIN_Y
    THEN [y |-> PAGE_H - MARGIN_Y, pages |-> cur.pages + 1]
    ELSE cur

needSpace(cur, needed) ==
    IF cur.y - needed < MARGIN_Y
    THEN [y |-> PAGE_H - MARGIN_Y, pages |-> cur.pages + 1]
    ELSE cur

\* page.drawText / page.drawLine: what is drawn, on which page, with the
\* cursor at cy, at the coordinates (x, at).
Draw(what, cur, at, x, txt, font, size, color) ==
    [what |-> what, page |-> cur.pages, cy |-> cur.y, at |-> at, x |-> x,
     txt |-> txt, font |-> font, size |-> size, color |-> color]

\* A draw call with the place in the input it renders: the section (its
\* number and key), the line of the section (its number, 0 before the loop
\* over the lines, and its kind) and the operation of that line.
Tag(d, sec, key, line, part, idx) ==
    [what |-> d.what, page |-> d.page, cy |-> d.cy, at |-> d.at, x |-> d.x,
     txt |-> d.txt, font |-> d.font, size |-> d.size, color |-> d.color,
     sec |-> sec, key |-> key, line |-> line, part |-> part, idx |-> idx]

\* No draw call yet.
NoDraw ==
    Tag(Draw("none", [y |-> 0, pages |-> 0], 0, 0, <<>>, "none", 0, "none"),
        0, <<>>, 0, "none", 0)

\* No item is being drawn.
NoTodo == [item |-> [key |-> <<>>, part |-> "none"], at |-> 0]

\* An addLine that draws and leaves the cursor where it was.
addLine_noAdvance(cur, o) ==
    LET c == needSpace(cur, o.lineH)
    IN  [cur   |-> c,
         draws |-> << Draw("line", c, c.y - o.size, o.x, sanitize(o.text),
                           o.font, o.size, o.color) >>]

\* An addLine that lowers the cursor by the font size only.
addLine_lowersBySize(cur, o) ==
    LET c == needSpace(cur, o.lineH)
    IN  [cur   |-> [y |-> c.y - o.size, pages |-> c.pages],
         draws |-> << Draw("line", c, c.y - o.size, o.x, sanitize(o.text),
                           o.font, o.size, o.color) >>]

\* addLine(text, font, size, color, x, lineHeightMult), as the operation
\* [op |-> "line", ...] with lineH = size * lineHeightMult: the cursor after
\* it and the draw calls made.
addLine(cur, o) ==
    LET c == needSpace(cur, o.lineH)
    IN  [cur   |-> [y |-> c.y - o.lineH, pages |-> c.pages],
         draws |-> << Draw("line", c, c.y - o.size, o.x, sanitize(o.text),
                           o.font, o.size, o.color) >>]

\* label.toUpperCase(), for the ASCII labels the renderer passes.
toUpperCase(t) ==
    [i \in 1..Len(t) |-> IF t[i] \in 97..122 THEN t[i] - 32 ELSE t[i]]

\* addSectionHeader with the room checked for the label alone, and again
\* for the rule.
addSectionHeader_breaksBeforeRule(cur, o) ==
    LET lead == [y |-> cur.y - 8 * Pt, pages |-> cur.pages]
        c    == needSpace(lead, SZ_SECTION_HDR)
        r    == needSpace([y |-> c.y - (SZ_SECTION_HDR + 4 * Pt), pages |-> c.pages],
                          10 * Pt)
    IN  [cur   |-> [y |-> r.y - 7 * Pt, pages |-> r.pages],
         draws |-> << Draw("header", c, c.y - SZ_SECTION_HDR, MARGIN_X,
                           toUpperCase(o.label), "bold", SZ_SECTION_HDR, "violet"),
                      Draw("rule", r, r.y, MARGIN_X, <<>>, "none", 0, "rule") >>]

\* addSectionHeader(label)
addSectionHeader(cur, o) ==
    LET lead == [y |-> cur.y - 8 * Pt, pages |-> cur.pages]
        c    == needSpace(lead, SZ_SECTION_HDR + 10 * Pt)
        r    == [y |-> c.y - (SZ_SECTION_HDR + 4 * Pt), pages |-> c.pages]
    IN  [cur   |-> [y |-> r.y - 7 * Pt, pages |-> r.pages],
         draws |-> << Draw("header", c, c.y - SZ_SECTION_HDR, MARGIN_X,
                           toUpperCase(o.label), "bold", SZ_SECTION_HDR, "violet"),
                      Draw("rule", r, r.y, MARGIN_X, <<>>, "none", 0, "rule") >>]

\* The SKILLS "label: value" draws with the value at the left margin.
addSkillsLabelValue_valueAtMargin(cur, o) ==
    LET c == needSpace(cur, Times(SZ_BODY, 155))
    IN  [cur   |-> [y |-> c.y - Times(SZ_BODY, 155), pages |-> c.pages],
         draws |-> << Draw("label", c, c.y - SZ_BODY, MARGIN_X, sanitize(o.label),
                           "bold", SZ_BODY, "black"),
                      Draw("value", c, c.y - SZ_BODY, MARGIN_X,
                           sanitize(o.first), "regular", SZ_BODY, "black") >>]

\* The SKILLS "label: value" draws: needSpace, the bold label and the first
\* value line on the same y, then y -= SZ_BODY * 1.55.
addSkillsLabelValue(cur, o) ==
    LET c == needSpace(cur, Times(SZ_BODY, 155))
    IN  [cur   |-> [y |-> c.y - Times(SZ_BODY, 155), pages |-> c.pages],
         draws |-> << Draw("label", c, c.y - SZ_BODY, MARGIN_X, sanitize(o.label),
                           "bold", SZ_BODY, "black"),
                      Draw("value", c, c.y - SZ_BODY, MARGIN_X + o.labelW,
                           sanitize(o.first), "regular", SZ_BODY, "black") >>]

\* The needSpace and the label draw of a SKILLS "label: value" line whose
\* value throws in wrapWords.
addSkillsLabel(cur, o) ==
    LET c == needSpace(cur, Times(SZ_BODY, 155))
    IN  [cur   |-> c,
         draws |-> << Draw("label", c, c.y - SZ_BODY, MARGIN_X, sanitize(o.label),
                           "bold", SZ_BODY, "black") >>]

\* y -= dy
addSpace(cur, o) ==
    [cur |-> [y |-> cur.y - o.dy, pages |-> cur.pages], draws |-> <<>>]

(***************************************************************************)
(* The section renderer: the drawing operations of a section, in order.    *)
(***************************************************************************)
LineOp(t, font, size, color, x, hundredths) ==
    [op |-> "line", text |-> t, font |-> font, size |-> size, color |-> color,
     x |-> x, lineH |-> Times(size, hundredths)]

SpaceOp(dy) == [op |-> "space", dy |-> dy]

HeaderOp(label) == [op |-> "header", label |-> label]

\* A call that throws, after a needSpace(needed) when needed > 0.
ThrowOp(needed) == [op |-> "throw", needed |-> needed]

\* An addWrapped that wraps to the content width and draws at the indent.
addWrapped_wrapsToContentWidth(t, font, size, color, indent, hundredths) ==
    IF WrapThrows(t) THEN <<ThrowOp(0)>>
    ELSE CHOOSE ops \in
             {<<>> \o [i \in 1..Len(lines) |->
                         LineOp(lines[i], font, size, color, MARGIN_X + indent,
                                hundredths)] :
                  lines \in {wrapWords(t, font, size, CONTENT_W)}} : TRUE

\* addWrapped(text, font, size, color, indent, lineHeightMult): one addLine
\* per wrapped line.
addWrapped(t, font, size, color, indent, hundredths) ==
    LET maxW == CONTENT_W - indent
    IN  IF WrapThrows(t) THEN <<ThrowOp(0)>>
        ELSE CHOOSE ops \in
                 {<<>> \o [i \in 1..Len(lines) |->
                             LineOp(lines[i], font, size, color, MARGIN_X + indent,
                                    hundredths)] :
                      lines \in {wrapWords(t, font, size, maxW)}} : TRUE

NonEmpty(lines) == SelectSeq(lines, LAMBDA l : l # <<>>)

\* lines.filter(...).join(" | ")
RECURSIVE JoinPipe(_)
JoinPipe(lines) ==
    IF lines = <<>> THEN <<>>
    ELSE IF Len(lines) = 1 THEN lines[1]
    ELSE lines[1] \o <<32, 124, 32>> \o JoinPipe(Tail(lines))

\* A NAME branch that draws every non-empty line, the name first.
NameOps_drawsAll(lines) ==
    LET ne == NonEmpty(lines)
    IN  <<>> \o [i \in 1..Len(ne) |->
                    IF i = 1 THEN LineOp(ne[i], "bold", SZ_NAME, "black", MARGIN_X, 130)
                    ELSE LineOp(ne[i], "regular", SZ_SUBTITLE, "gray", MARGIN_X, 140)]
        \o <<SpaceOp(2 * Pt)>>

\* The NAME branch.
NameOps(lines) ==
    LET ne    == NonEmpty(lines)
        name  == IF Len(ne) >= 1 THEN ne[1] ELSE <<>>
        title == IF Len(ne) >= 2 THEN ne[2] ELSE <<>>
    IN  (IF name # <<>> THEN <<LineOp(name, "bold", SZ_NAME, "black", MARGIN_X, 130)>> ELSE <<>>)
        \o (IF title # <<>>
            THEN <<LineOp(title, "regular", SZ_SUBTITLE, "gray", MARGIN_X, 140)>> ELSE <<>>)
        \o <<SpaceOp(2 * Pt)>>

\* The CONTACT branch.
ContactOps(lines) ==
    addWrapped(JoinPipe(NonEmpty(lines)), "italic", SZ_CONTACT, "gray", 0, 150)
        \o <<SpaceOp(4 * Pt)>>

\* line.startsWith("-") || line.startsWith("*")
IsBullet(line) == line # <<>> /\ line[1] \in {45, 42}

\* A bullet text that keeps the marker of the line.
BulletText_keepsMarker(line) == <<45, 32>> \o line

\* `- ${line.replace(/^[-*]\s*/, "")}`
BulletText(line) == <<45, 32>> \o TrimStart(Tail(line))

BulletOps(line) == addWrapped(BulletText(line), "regular", SZ_BULLET, "black", 14 * Pt, 150)

\* line.indexOf(":"), 1-based; 0 when there is none.
ColonIdx(line) ==
    IF \E i \in DOMAIN line : line[i] = 58
    THEN CHOOSE i \in DOMAIN line : line[i] = 58 /\ \A j \in 1..(i - 1) : line[j] # 58
    ELSE 0

\* One non-empty SKILLS line, with its trailing y -= 1.  A label that cannot
\* be encoded throws after the needSpace of the line, a value that cannot
\* after the draw of the label.
SkillsLineOps(line) ==
    LET colonIdx == ColonIdx(line)
    IN  IF colonIdx # 0
        THEN LET label     == SubSeq(line, 1, colonIdx)
                 rest      == Trim(SubSeq(line, colonIdx + 1, Len(line)))
                 labelW    == widthOfTextAtSize("bold", sanitize(label) \o <<32>>, SZ_BODY)
             IN  IF MeasureThrows(sanitize(label))
                 THEN <<ThrowOp(Times(SZ_BODY, 155))>>
                 ELSE IF WrapThrows(rest)
                 THEN <<[op |-> "label", label |-> label], ThrowOp(0)>>
                 ELSE CHOOSE ops \in
                          {<< [op |-> "skills", label |-> label, labelW |-> labelW,
                               first |-> restLines[1]] >>
                              \o [i \in 1..(Len(restLines) - 1) |->
                                     LineOp(restLines[i + 1], "regular", SZ_BODY,
                                            "black", MARGIN_X, 150)]
                              \o <<SpaceOp(1 * Pt)>> :
                           restLines \in {wrapWords(rest, "regular", SZ_BODY,
                                                    CONTENT_W - labelW)}} : TRUE
        ELSE addWrapped(line, "regular", SZ_BODY, "black", 0, 155) \o <<SpaceOp(1 * Pt)>>

\* The lines of a section with the header drawn again before a bullet of
\* EXPERIENCE.
LineOps_repeatsHeader(policy, line) ==
    CASE policy = "summary" ->
            IF line = <<>> THEN <<SpaceOp(Times(SZ_BODY, 40))>>
            ELSE addWrapped(line, "regular", SZ_BODY, "black", 0, 155)
      [] policy = "experience" ->
            IF line = <<>> THEN <<SpaceOp(Times(SZ_BODY, 50))>>
            ELSE IF IsBullet(line)
                 THEN <<HeaderOp(<<69, 120, 112>>)>> \o BulletOps(line)
            ELSE <<SpaceOp(5 * Pt)>> \o addWrapped(line, "bold", SZ_BODY, "black", 0, 155)
      [] policy = "education" ->
            IF line = <<>> THEN <<SpaceOp(Times(SZ_BODY, 40))>>
            ELSE IF IsBullet(line) THEN BulletOps(line)
            ELSE addWrapped(line, "bold", SZ_BODY, "black", 0, 155)
      [] policy = "skills" ->
            IF line = <<>> THEN <<SpaceOp(Times(SZ_BODY, 30))>>
            ELSE SkillsLineOps(line)
      [] OTHER ->
            IF line = <<>> THEN <<SpaceOp(Times(SZ_BODY, 40))>>
            ELSE addWrapped(line, "regular", SZ_BODY, "black", 0, 155)

\* One iteration of the loop over a section's lines, by the section's branch.
LineOps(policy, line) ==
    CASE policy = "summary" ->
            IF line = <<>> THEN <<SpaceOp(Times(SZ_BODY, 40))>>
            ELSE addWrapped(line, "regular", SZ_BODY, "black", 0, 155)
      [] policy = "experience" ->
            IF line = <<>> THEN <<SpaceOp(Times(SZ_BODY, 50))>>
            ELSE IF IsBullet(line) THEN BulletOps(line)
            ELSE <<SpaceOp(5 * Pt)>> \o addWrapped(line, "bold", SZ_BODY, "black", 0, 155)
      [] policy = "education" ->
            IF line = <<>> THEN <<SpaceOp(Times(SZ_BODY, 40))>>
            ELSE IF IsBullet(line) THEN BulletOps(line)
            ELSE addWrapped(line, "bold", SZ_BODY, "black", 0, 155)
      [] policy = "skills" ->
            IF line = <<>> THEN <<SpaceOp(Times(SZ_BODY, 30))>>
            ELSE SkillsLineOps(line)
      [] OTHER ->
            IF line = <<>> THEN <<SpaceOp(Times(SZ_BODY, 40))>>
            ELSE addWrapped(line, "regular", SZ_BODY, "black", 0, 155)

\* Header labels with one fixed label, "Other", for every unrecognised key.
HeaderLabel_generic(k) ==
    CASE SectionPolicy(k) = "summary"    -> <<83, 117, 109, 109, 97, 114, 121>>
      [] SectionPolicy(k) = "experience" -> <<69, 120, 112, 101, 114, 105, 101, 110, 99, 101>>
      [] SectionPolicy(k) = "education"  -> <<69, 100, 117, 99, 97, 116, 105, 111, 110>>
      [] SectionPolicy(k) = "skills"     -> <<83, 107, 105, 108, 108, 115>>
      [] OTHER                           -> <<79, 116, 104, 101, 114>>

\* The label each branch passes to addSectionHeader.
HeaderLabel(k) ==
    CASE SectionPolicy(k) = "summary"    -> <<83, 117, 109, 109, 97, 114, 121>>
      [] SectionPolicy(k) = "experience" -> <<69, 120, 112, 101, 114, 105, 101, 110, 99, 101>>
      [] SectionPolicy(k) = "education"  -> <<69, 100, 117, 99, 97, 116, 105, 111, 110>>
      [] SectionPolicy(k) = "skills"     -> <<83, 107, 105, 108, 108, 115>>
      [] OTHER                           -> k

(***************************************************************************)
(* Bounded inputs of the pure-function specifications.                     *)
(***************************************************************************)
MaxSanLen == 3
\* One or two of each class sanitize tells apart: the mapped typographic
\* characters, a Latin-1 letter, an ASCII letter, a character above U+00FF,
\* and two control characters, U+0007 (C0) and U+0085 (C1).
SanAlphabet ==
    {8216, 8221, 8212, 8211, 8226, 183, 8230, 8482, 174, 97, 233, 20013, 7, 133}

MaxWrapLen == 5
\* a, W (wider), space, line feed, em dash (sanitized to " - "), a CJK
\* character (dropped).
WrapAlphabet == {97, 87, 32, 10, 8212, 20013}
\* The (font, size) pairs wrapWords is called with, in 1/2000 pt.
WrapFontSizes == {<<"regular", 19 * 1000>>, <<"bold", 19 * 1000>>}
\* -1 pt, 0, 6 pt (an "a" fits, a "W" does not), 14 pt ("a a"), 22 pt ("a a a").
WrapWidths == {0 - Pt, 0, 6 * Pt, 14 * Pt, 22 * Pt}

MaxPieces == 4
\* A text is a concatenation of at most MaxPieces pieces: "[", "]", "A", "a",
\* " ", or a whole bracketed token "[A]", "[B]", "[NAME]", "[a]".
ParsePieces ==
    { <<91>>, <<93>>, <<65>>, <<97>>, <<32>>,
      <<91, 65, 93>>, <<91, 66, 93>>, <<91>> \o K_NAME \o <<93>>, <<91, 97, 93>> }
ParseTexts == {Flatten(ps) : ps \in StrsUpTo(ParsePieces, MaxPieces)}

\* The route's variables in a specification that serves no request.
NoProfile == [daily_count |-> -1, last_reset |-> -1]

RouteIdle ==
    /\ reqs = <<>>
    /\ profile = NoProfile
    /\ analyses = {}
    /\ clock = 0
    /\ served = <<>>

\* The build's variables in a specification that runs no build.
BuildIdle ==
    /\ y = 0
    /\ pages = 0
    /\ secKey = <<>>
    /\ need = "none"
    /\ todo = NoTodo
    /\ did = "none"
    /\ drawn = <<>>
    /\ prev = NoDraw
    /\ count = [secs |-> 0, lines |-> 0]

(***************************************************************************)
(* Specification of sanitize: applied once, then to its own result.        *)
(***************************************************************************)
InitSanitize ==
    /\ text \in StrsUpTo(SanAlphabet, MaxSanLen)
    /\ wrapArgs = None
    /\ result = None
    /\ stage = "input"
    /\ BuildIdle
    /\ RouteIdle

Sanitize ==
    /\ stage = "input"
    /\ result' = <<sanitize(text)>>
    /\ stage' = "sanitized"
    /\ UNCHANGED <<text, wrapArgs, buildVars, routeVars>>

SanitizeAgain ==
    /\ stage = "sanitized"
    /\ result' = <<result[1], sanitize(result[1])>>
    /\ stage' = "resanitized"
    /\ UNCHANGED <<text, wrapArgs, buildVars, routeVars>>

NextSanitize == Sanitize \/ SanitizeAgain

SpecSanitize == InitSanitize /\ [][NextSanitize]_vars

(***************************************************************************)
(* Specification of wrapWords.                                             *)
(***************************************************************************)
InitWrap ==
    /\ text \in StrsUpTo(WrapAlphabet, MaxWrapLen)
    /\ \E fs \in WrapFontSizes, w \in WrapWidths :
           wrapArgs = [font |-> fs[1], size |-> fs[2], maxWidth |-> w]
    /\ result = None
    /\ stage = "input"
    /\ BuildIdle
    /\ RouteIdle

Wrap ==
    /\ stage = "input"
    /\ result' = wrapWords(text, wrapArgs.font, wrapArgs.size, wrapArgs.maxWidth)
    /\ stage' = "wrapped"
    /\ UNCHANGED <<text, wrapArgs, buildVars, routeVars>>

NextWrap == Wrap

SpecWrap == InitWrap /\ [][NextWrap]_vars

(***************************************************************************)
(* Specification of parseSections.                                         *)
(***************************************************************************)
InitParse ==
    /\ text \in ParseTexts
    /\ wrapArgs = None
    /\ result = None
    /\ stage = "input"
    /\ BuildIdle
    /\ RouteIdle

Parse ==
    /\ stage = "input"
    /\ result' = parseSections(text)
    /\ stage' = "parsed"
    /\ UNCHANGED <<text, wrapArgs, buildVars, routeVars>>

NextParse == Parse

SpecParse == InitParse /\ [][NextParse]_vars

(***************************************************************************)
(* Claims about the pure functions.                                        *)
(***************************************************************************)
\* The tokens of a returned line: its maximal runs of non-space characters.
LineTokens(line) == SplitRuns(line, {32}, 1)

WrapWidthOf(line) == widthOfTextAtSize(wrapArgs.font, line, wrapArgs.size)

\* C1: for maxWidth > 0, every line wrapWords returns either measures at most
\* maxWidth or consists of exactly one token.
C1_WrapFitsOrSingleToken ==
    (stage = "wrapped" /\ wrapArgs.maxWidth > 0) =>
        \A i \in DOMAIN result :
            \/ WrapWidthOf(result[i]) <= wrapArgs.maxWidth
            \/ Len(LineTokens(result[i])) = 1

\* A wrap that returned both a fitting line of several tokens and an
\* overflowing line of one token.
C1_Witness ==
    /\ stage = "wrapped"
    /\ wrapArgs.maxWidth > 0
    /\ \E i \in DOMAIN result :
           Len(LineTokens(result[i])) >= 2 /\ WrapWidthOf(result[i]) <= wrapArgs.maxWidth
    /\ \E i \in DOMAIN result :
           Len(LineTokens(result[i])) = 1 /\ WrapWidthOf(result[i]) > wrapArgs.maxWidth

\* C2: the tokens of the returned lines, concatenated in line order, are
\* exactly the white-space-split tokens of the sanitized input.
C2_WrapKeepsTokens ==
    stage = "wrapped" =>
        Flatten([i \in DOMAIN result |-> LineTokens(result[i])])
            = SplitWords(sanitize(text))

\* A wrap of three tokens or more into at least two lines, one of them holding
\* several tokens, one token wider than maxWidth.
C2_Witness ==
    /\ stage = "wrapped"
    /\ Len(result) >= 2
    /\ Len(SplitWords(sanitize(text))) >= 3
    /\ \E i \in DOMAIN result : Len(LineTokens(result[i])) >= 2
    /\ \E i \in DOMAIN result : WrapWidthOf(result[i]) > wrapArgs.maxWidth

\* C10: sanitize is idempotent.
C10_SanitizeIdempotent ==
    stage = "resanitized" => result[2] = result[1]

\* sanitize applied twice to a text that it changes: an ellipsis or an em dash
\* expanded, a character above U+00FF dropped.
C10_Witness ==
    /\ stage = "resanitized"
    /\ \E i \in DOMAIN text : text[i] \in {8230, 8212}
    /\ \E i \in DOMAIN text : text[i] > 255
    /\ Len(result[1]) > Len(text)

\* C11 as stated: no character of sanitize(x) is above U+00FF, a control
\* character (U+0000-U+001F, U+007F-U+009F) or one of the mapped typographic
\* characters.
C11_Original ==
    stage \in {"sanitized", "resanitized"} =>
        \A i \in DOMAIN result[1] :
            /\ result[1][i] <= 255
            /\ result[1][i] \notin (0..31) \cup (127..159)
            /\ result[1][i] \notin
                   {8216, 8217, 8220, 8221, 8212, 8211, 8226, 183, 8230, 8482, 174}

\* The breaks of the returned lines are greedy, and a token wider than
\* maxWidth is alone on its line.
GreedyBreaks ==
    /\ \A i \in 1..(Len(result) - 1) :
           WrapWidthOf(JoinSpace(result[i], LineTokens(result[i + 1])[1]))
               > wrapArgs.maxWidth
    /\ \A i \in DOMAIN result :
           (\E k \in DOMAIN LineTokens(result[i]) :
                WrapWidthOf(LineTokens(result[i])[k]) > wrapArgs.maxWidth)
               => Len(LineTokens(result[i])) = 1

\* C26 as stated: the breaks are greedy, a token wider than maxWidth is alone
\* on its line, and there are never more lines than tokens.
C26_Original ==
    stage = "wrapped" =>
        /\ GreedyBreaks
        /\ Len(result) <= Len(SplitWords(sanitize(text)))

\* C26: the breaks are greedy, a token wider than maxWidth is alone on its
\* line, and there are never more lines than tokens, but for the one empty
\* line of a text without tokens.
C26_GreedyAtMostOneLinePerToken ==
    stage = "wrapped" =>
        /\ GreedyBreaks
        /\ \/ Len(result) <= Len(SplitWords(sanitize(text)))
           \/ SplitWords(sanitize(text)) = <<>> /\ result = << <<>> >>

\* A wrap to a negative width: three tokens, each on its own line.
C26_Witness ==
    /\ stage = "wrapped"
    /\ wrapArgs.maxWidth < 0
    /\ Len(SplitWords(sanitize(text))) = 3
    /\ Len(result) = 3

\* The sanitized text holds a character that is not white space.
HasToken(t) == \E i \in DOMAIN sanitize(t) : ~IsSpace(sanitize(t)[i])

\* C23: wrapWords returns the one line "" for a text whose sanitized form
\* has no token, and otherwise at least one line and no empty line.
C23_OneEmptyLineOrNoEmptyLine ==
    stage = "wrapped" =>
        IF HasToken(text)
        THEN Len(result) >= 1 /\ \A i \in DOMAIN result : result[i] # <<>>
        ELSE result = << <<>> >>

\* The wrap of a text made only of characters that sanitize drops and of
\* white space.
C23_Witness ==
    /\ stage = "wrapped"
    /\ text = <<20013, 32, 20013>>
    /\ result = << <<>> >>

\* A marker: "[", one or more of A-Z, "]", at positions i..j of t.
IsMarkerSpan(t, i, j) ==
    /\ i + 1 < j
    /\ t[i] = 91
    /\ t[j] = 93
    /\ \A k \in (i + 1)..(j - 1) : t[k] \in 65..90

MarkerSpans(t) ==
    {ij \in (1..Len(t)) \X (1..Len(t)) : IsMarkerSpan(t, ij[1], ij[2])}

\* A set of spans as a sequence, by start position.
RECURSIVE SpansInOrder(_)
SpansInOrder(S) ==
    IF S = {} THEN <<>>
    ELSE LET first == CHOOSE a \in S : \A b \in S : a[1] <= b[1]
         IN  <<first>> \o SpansInOrder(S \ {first})

\* The sections that cutting t at the marker spans ms (in order) gives: the
\* key between the brackets, the text up to the next span, content not trimmed.
CutAt(t, ms) ==
    [k \in 1..Len(ms) |->
        [key |-> SubSeq(t, ms[k][1] + 1, ms[k][2] - 1),
         content |-> SubSeq(t, ms[k][2] + 1,
                            IF k < Len(ms) THEN ms[k + 1][1] - 1 ELSE Len(t))]]

TrimContents(secs) ==
    [k \in DOMAIN secs |-> [key |-> secs[k].key, content |-> Trim(secs[k].content)]]

\* Every way of writing t as [KEY_1]c_1 ... [KEY_n]c_n: a choice of marker
\* spans that includes the one at the start of t.
Decompositions(t) ==
    IF t = <<>> THEN { <<>> }
    ELSE {CutAt(t, SpansInOrder(S)) :
            S \in {X \in SUBSET MarkerSpans(t) : \E ij \in X : ij[1] = 1}}

HasMarker(c) == MarkerSpans(c) # {}

\* C7 as stated: for every way of writing the input as [KEY_1]c_1...[KEY_n]c_n
\* with arbitrary contents, parseSections returns {KEY_i, trim(c_i)} in order.
C7_Original ==
    stage = "parsed" =>
        \A d \in Decompositions(text) : result = TrimContents(d)

\* C7, amended: the same for contents that contain no marker themselves.
C7_RoundTripMarkerFreeContents ==
    stage = "parsed" =>
        \A d \in Decompositions(text) :
            (\A k \in DOMAIN d : ~HasMarker(d[k].content)) => result = TrimContents(d)

\* A parsed text written as two sections with different keys, one content
\* changed by the trim.
C7_Witness ==
    /\ stage = "parsed"
    /\ \E d \in Decompositions(text) :
           /\ Len(d) = 2
           /\ \A k \in DOMAIN d : ~HasMarker(d[k].content)
           /\ d[1].key # d[2].key
           /\ \E k \in DOMAIN d : d[k].content # <<>> /\ Trim(d[k].content) # d[k].content

\* C8: one section per marker occurrence, in source order, repeated keys kept;
\* the content is the trimmed text up to the next marker, so text before the
\* first marker is in no section, no marker gives no section and adjacent
\* markers give an empty content.
C8_OneSectionPerMarker ==
    stage = "parsed" =>
        result = TrimContents(CutAt(text, SpansInOrder(MarkerSpans(text))))

\* A parsed text with text before its first marker and the same key twice, the
\* first occurrence directly followed by the second.
C8_Witness ==
    /\ stage = "parsed"
    /\ text # <<>> /\ text[1] # 91
    /\ Len(result) = 2
    /\ result[1].key = result[2].key
    /\ result[1].content = <<>>

\* A bracketed token: "[" ... "]" around one or more characters, none a bracket.
BracketTokens(t) ==
    {ij \in (1..Len(t)) \X (1..Len(t)) :
        /\ ij[1] + 1 < ij[2]
        /\ t[ij[1]] = 91
        /\ t[ij[2]] = 93
        /\ \A k \in (ij[1] + 1)..(ij[2] - 1) : t[k] \notin {91, 93}}

Inner(t, ij) == SubSeq(t, ij[1] + 1, ij[2] - 1)

IsSubstring(u, t) ==
    \E i \in 1..(Len(t) - Len(u) + 1) : SubSeq(t, i, i + Len(u) - 1) = u

\* The number of markers that start at or before position i.
MarkersUpTo(t, i) == Cardinality({m \in MarkerSpans(t) : m[1] <= i})

\* C9 as stated: every bracketed token that is not one of the six known names
\* starts a section, which the renderer handles with the unrecognized-key
\* policy.
C9_Original ==
    stage = "parsed" =>
        \A tok \in BracketTokens(text) :
            Inner(text, tok) \notin KnownKeys =>
                /\ MarkersUpTo(text, tok[1]) \in DOMAIN result
                /\ result[MarkersUpTo(text, tok[1])].key = Inner(text, tok)
                /\ SectionPolicy(Inner(text, tok)) = "fallback"

\* C9, amended: a bracketed token of one or more letters A-Z that is not a
\* known name starts a section rendered with the unrecognized-key policy; any
\* other bracketed token starts no section and stays in the content of the
\* section before it (or in the dropped text before the first marker).
C9_UppercaseTokensStartFallbackSections ==
    stage = "parsed" =>
        /\ Len(result) = Cardinality(MarkerSpans(text))
        /\ \A tok \in BracketTokens(text) :
               LET k == MarkersUpTo(text, tok[1])
               IN  IF tok \in MarkerSpans(text)
                   THEN /\ result[k].key = Inner(text, tok)
                        /\ (Inner(text, tok) \notin KnownKeys
                               => SectionPolicy(result[k].key) = "fallback")
                   ELSE k > 0 => IsSubstring(SubSeq(text, tok[1], tok[2]), result[k].content)

\* A parsed text with a known section, an unknown upper-case one, and a
\* lower-case bracketed token left in a section's content.
C9_Witness ==
    /\ stage = "parsed"
    /\ \E k \in DOMAIN result : SectionPolicy(result[k].key) = "fallback"
    /\ \E k \in DOMAIN result : SectionPolicy(result[k].key) = "name"
    /\ \E tok \in BracketTokens(text) :
           tok \notin MarkerSpans(text) /\ MarkersUpTo(text, tok[1]) > 0

(***************************************************************************)
(* The build, buildResumePdf: the loop over the sections and, inside a     *)
(* section, over its lines.  The input is read as the loops reach it: each *)
(* step that takes the next section or the next line chooses it among the  *)
(* sample keys and lines below, so a behaviour is the build of one input   *)
(* text, and every text of at most MaxSections sections of at most         *)
(* MaxLines of these lines each has its behaviour.                         *)
(***************************************************************************)
MaxSections == 2
MaxLines == 3
MaxPages == 2
\* The numbers of long words in the sample lines that fill a page.
TallLines == 44
TallBullets == 45
TallValues == 45
\* The length of a SKILLS value of one word wider than the content width.
WideValue == 90

K_OTHER == <<67, 69, 82, 84>>   \* "CERT", an unrecognised key

BuildKeys == KnownKeys \cup {K_OTHER}

\* A word too long for two of it to share a line: 30 times "W".
LongWord == [i \in 1..30 |-> 87]

\* A word that fits the content width after "- " but not the width of a
\* bullet: 57 times "W".
EdgeWord == [i \in 1..57 |-> 87]

RECURSIVE LongWords(_)
LongWords(n) ==
    IF n <= 1 THEN LongWord ELSE LongWords(n - 1) \o <<32>> \o LongWord

\* The sample lines, trimmed as content.split("\n").map(trim) leaves them.
SampleLine ==
    [ blank      |-> <<>>,
      a          |-> <<97>>,                                \* "a"
      b          |-> <<98>>,                                \* "b"
      bullet     |-> <<45, 32, 97>>,                        \* "- a"
      star       |-> <<42, 97>>,                            \* "*a"
      colon      |-> <<97, 58, 32, 97>>,                    \* "a: a"
      tall       |-> LongWords(TallLines),
      tallBullet |-> <<45, 32>> \o LongWords(TallBullets),
      colonTall  |-> <<97, 58, 32>> \o LongWords(TallValues),
      colonWide  |-> <<97, 58, 32>> \o [i \in 1..WideValue |-> 87], \* "a: WW...W"
      colonTwo   |-> <<97, 58, 32, 97, 32, 98, 32>> \o LongWords(2), \* "a: a b W..W W..W"
      labelWide  |-> [i \in 1..WideValue |-> 87] \o <<58, 32, 97>>, \* "WW...W: a"
      bulletEdge |-> <<45, 32>> \o EdgeWord,                \* "- WW...W"
      colonCtrl  |-> <<97, 58, 32, 7>>,                     \* "a: \u0007"
      labelCtrl  |-> <<7, 58, 32, 97>>,                     \* "\u0007: a"
      ctrl       |-> <<97, 32, 7>>,                         \* "a \u0007"
      curly      |-> <<97, 8217, 97, 32, 8212, 32, 20013, 97>>, \* a, ', a, em dash, CJK, a
      colonCurly |-> <<8220, 97, 8221, 58, 32, 8230, 97>> ] \* curly-quoted "a", ": ", ellipsis, a

\* The lines a section's content may hold, by the section's branch.
LinesFor(policy) ==
    CASE policy = "experience" -> {"blank", "a", "bullet", "tallBullet", "ctrl"}
      [] policy = "education"  -> {"blank", "a", "star", "tallBullet", "bulletEdge"}
      [] policy = "skills"     -> {"blank", "a", "colon", "colonTall", "colonWide",
                                       "colonTwo", "labelWide", "colonCurly",
                                       "colonCtrl", "labelCtrl"}
      [] OTHER                 -> {"blank", "a", "tall", "ctrl", "curly"}

\* The contents of the NAME and CONTACT sections tried, as lines.
SampleContent ==
    [ empty |-> << SampleLine.blank >>,
      one   |-> << SampleLine.a >>,
      two   |-> << SampleLine.a, SampleLine.b >>,
      four  |-> << SampleLine.a, SampleLine.blank, SampleLine.b, SampleLine.a >>,
      bell  |-> << <<7>> >> ]                               \* "\u0007"

\* What the loops can take next: a section (for NAME and CONTACT with its
\* content, for the other branches up to its header), or a line of a section.
Items ==
    {[key |-> k, part |-> c] : k \in {K_NAME, K_CONTACT}, c \in DOMAIN SampleContent}
    \cup {[key |-> k, part |-> "header"] : k \in BuildKeys \ {K_NAME, K_CONTACT}}
    \cup UNION {{[key |-> k, part |-> l] : l \in LinesFor(SectionPolicy(k))} :
                    k \in BuildKeys \ {K_NAME, K_CONTACT}}

IsStart(it) == it.key \in {K_NAME, K_CONTACT} \/ it.part = "header"

\* The drawing operations of each item, in order.
ItemTable ==
    {[item |-> it,
      ops  |-> CASE SectionPolicy(it.key) = "name"    -> NameOps(SampleContent[it.part])
                 [] SectionPolicy(it.key) = "contact" -> ContactOps(SampleContent[it.part])
                 [] it.part = "header"                -> <<HeaderOp(HeaderLabel(it.key))>>
                 [] OTHER -> LineOps(SectionPolicy(it.key), SampleLine[it.part])]
        : it \in Items}

ItemOps(it) == (CHOOSE r \in ItemTable : r.item = it).ops

\* A build that starts with a document without a page.
InitBuild_noPage ==
    /\ text = <<>>
    /\ wrapArgs = None
    /\ result = None
    /\ stage = "build"
    /\ y = PAGE_H - MARGIN_Y
    /\ pages = 0
    /\ secKey = <<>>
    /\ need = "section"
    /\ todo = NoTodo
    /\ did = "none"
    /\ drawn = <<>>
    /\ prev = NoDraw
    /\ count = [secs |-> 0, lines |-> 0]
    /\ RouteIdle

InitBuild ==
    /\ text = <<>>
    /\ wrapArgs = None
    /\ result = None
    /\ stage = "build"
    /\ y = PAGE_H - MARGIN_Y
    /\ pages = 1
    /\ secKey = <<>>
    /\ need = "section"
    /\ todo = NoTodo
    /\ did = "none"
    /\ drawn = <<>>
    /\ prev = NoDraw
    /\ count = [secs |-> 0, lines |-> 0]
    /\ RouteIdle

\* The loop over the sections is between two sections, or may leave the
\* section it is in: its content, trimmed, does not end with an empty line.
BetweenSections ==
    /\ todo = NoTodo
    /\ need \in {"section", "more", "last", "close"}

\* for (const { key, content } of sections): the next section, up to its
\* header; NAME and CONTACT hold no loop over lines.
StartSection ==
    /\ BetweenSections
    /\ count.secs < MaxSections
    /\ \E it \in {i \in Items : IsStart(i)} :
        /\ secKey' = it.key
        /\ todo' = [item |-> it, at |-> 1]
        /\ need' = IF it.part = "header" THEN "first" ELSE "close"
    /\ count' = [secs |-> count.secs + 1, lines |-> 0]
    /\ UNCHANGED <<textVars, routeVars, y, pages, did, drawn, prev>>

\* for (const line of lines): the next line of the section.  An empty
\* content is one empty line; otherwise the first and the last line are not
\* empty.
NextLine ==
    /\ todo = NoTodo
    /\ need \in {"first", "more", "blank"}
    /\ count.lines < MaxLines
    /\ \E it \in {i \in Items : ~IsStart(i) /\ i.key = secKey} :
        /\ (it.part = "blank" /\ need # "first") => count.lines + 1 < MaxLines
        /\ todo' = [item |-> it, at |-> 1]
        /\ need' = IF it.part # "blank" THEN "more"
                   ELSE IF need = "first" THEN "last" ELSE "blank"
    /\ count' = [count EXCEPT !.lines = @ + 1]
    /\ UNCHANGED <<textVars, routeVars, y, pages, secKey, did, drawn, prev>>

\* The operation the build runs next.
CurOp == ItemOps(todo.item)[todo.at]

Cursor == [y |-> y, pages |-> pages]

\* The operation o throws: a wrap or a measure of it does, or the drawText
\* of its line.
Fails(o) ==
    \/ o.op = "throw"
    \/ o.op = "line" /\ DrawThrows(sanitize(o.text))

\* The step of one drawing operation o that leaves the cursor and the draw
\* calls of after.
Ran(o, after) ==
    /\ ~Fails(o)
    /\ after.cur.pages <= MaxPages
    /\ y' = after.cur.y
    /\ pages' = after.cur.pages
    /\ todo' = IF todo.at < Len(ItemOps(todo.item))
               THEN [todo EXCEPT !.at = @ + 1] ELSE NoTodo
    /\ did' = o.op
    /\ drawn' = [k \in DOMAIN after.draws |->
                    Tag(after.draws[k], count.secs, secKey, count.lines,
                        todo.item.part, todo.at)]
    /\ prev' = IF drawn # <<>> THEN drawn[Len(drawn)] ELSE prev
    /\ UNCHANGED <<textVars, routeVars, secKey, need, count>>

AddLine ==
    /\ todo # NoTodo
    /\ \E o \in {CurOp} :
        /\ o.op = "line"
        /\ \E after \in {addLine(Cursor, o)} : Ran(o, after)

AddSectionHeader ==
    /\ todo # NoTodo
    /\ \E o \in {CurOp} :
        /\ o.op = "header"
        /\ \E after \in {addSectionHeader(Cursor, o)} : Ran(o, after)

AddSkillsLabelValue ==
    /\ todo # NoTodo
    /\ \E o \in {CurOp} :
        /\ o.op = "skills"
        /\ \E after \in {addSkillsLabelValue(Cursor, o)} : Ran(o, after)

AddSkillsLabel ==
    /\ todo # NoTodo
    /\ \E o \in {CurOp} :
        /\ o.op = "label"
        /\ \E after \in {addSkillsLabel(Cursor, o)} : Ran(o, after)

AddSpace ==
    /\ todo # NoTodo
    /\ \E o \in {CurOp} :
        /\ o.op = "space"
        /\ \E after \in {addSpace(Cursor, o)} : Ran(o, after)

\* An operation throws and buildResumePdf rejects: no document is returned.
\* An addLine or a SKILLS line has made room for itself before it throws.
Throw ==
    /\ todo # NoTodo
    /\ \E o \in {CurOp} :
        /\ Fails(o)
        /\ \E needed \in {IF o.op = "line" THEN o.lineH ELSE o.needed} :
           \E cur \in {IF needed > 0 THEN needSpace(Cursor, needed) ELSE Cursor} :
            /\ cur.pages <= MaxPages
            /\ y' = cur.y
            /\ pages' = cur.pages
    /\ need' = "error"
    /\ todo' = NoTodo
    /\ did' = "throw"
    /\ drawn' = <<>>
    /\ prev' = IF drawn # <<>> THEN drawn[Len(drawn)] ELSE prev
    /\ UNCHANGED <<textVars, routeVars, secKey, count>>

\* return doc.save()
Save ==
    /\ BetweenSections
    /\ need' = "done"
    /\ UNCHANGED <<textVars, routeVars, y, pages, secKey, todo, did, drawn, prev, count>>

Next ==
    \/ StartSection
    \/ NextLine
    \/ AddLine
    \/ AddSectionHeader
    \/ AddSkillsLabelValue
    \/ AddSkillsLabel
    \/ AddSpace
    \/ Throw
    \/ Save

Spec == InitBuild /\ [][Next]_vars

(***************************************************************************)
(* Claims about the build.                                                 *)
(***************************************************************************)
\* Content of the section being rendered is still to be drawn: a draw
\* operation of the line taken is left, or the line taken was an empty line
\* inside the content, which a non-empty line follows.
ContentPending ==
    /\ stage = "build"
    /\ \/ /\ todo # NoTodo
          /\ \E k \in todo.at..Len(ItemOps(todo.item)) :
                 ItemOps(todo.item)[k].op # "space"
       \/ todo = NoTodo /\ need = "blank"

\* C3 as stated: whenever section content remains to be rendered, the cursor
\* y is at or above the bottom margin.
C3_Original == ContentPending => y >= MARGIN_Y

\* C3: every draw call is made with the cursor at or above the bottom margin,
\* and a line draw leaves it there; with content pending the cursor is below
\* the bottom margin only after unchecked spacing or after a section header,
\* and a section header leaves it less than one unit below.
C3_CursorBelowMarginOnlyAfterSpacing ==
    stage = "build" =>
        /\ \A k \in DOMAIN drawn : drawn[k].cy >= MARGIN_Y
        /\ did \in {"line", "skills"} => y >= MARGIN_Y
        /\ did = "header" => y >= MARGIN_Y - 1 * Pt
        /\ (ContentPending /\ y < MARGIN_Y) => did \in {"space", "header"}

\* Spacing has left the cursor below the bottom margin on a page that holds a
\* line, and content of the section is still to be drawn.
C3_Witness ==
    /\ ContentPending
    /\ y < MARGIN_Y
    /\ did = "space"
    /\ prev.what = "line"

\* C4 as stated: a draw operation starts a new page if and only if its full
\* vertical consumption would otherwise end below the bottom margin.
C4_Original ==
    [][ (todo # NoTodo /\ CurOp.op \in {"line", "skills", "header"}) =>
            LET consumed == CASE CurOp.op = "line"   -> CurOp.lineH
                              [] CurOp.op = "skills" -> Times(SZ_BODY, 155)
                              [] CurOp.op = "header" ->
                                     8 * Pt + SZ_SECTION_HDR + 4 * Pt + 7 * Pt
            IN  (pages' = pages + 1) <=> (y - consumed < MARGIN_Y) ]_vars

\* The draw calls of the last step, after the draw call that came before them.
LastDraws == IF prev = NoDraw THEN drawn ELSE <<prev>> \o drawn

\* C5 as stated: of two consecutive draw calls on the same page, the second is
\* made with the cursor strictly lower.
C5_Original ==
    \A k \in 1..(Len(LastDraws) - 1) :
        LastDraws[k].page = LastDraws[k + 1].page
            => LastDraws[k + 1].cy < LastDraws[k].cy

\* C5: of two consecutive draw calls on the same page, the second is made with
\* the cursor strictly lower, except the label and the first value line of a
\* SKILLS line, which are drawn with the cursor at the same y.
C5_StrictlyLowerExceptSkillsLabelValue ==
    \A k \in 1..(Len(LastDraws) - 1) :
        LastDraws[k].page = LastDraws[k + 1].page
            => \/ LastDraws[k + 1].cy < LastDraws[k].cy
               \/ /\ LastDraws[k].what = "label"
                  /\ LastDraws[k + 1].what = "value"
                  /\ LastDraws[k + 1].cy = LastDraws[k].cy

\* A SKILLS label and value drawn on the second page, below a line of that page.
C5_Witness ==
    /\ did = "skills"
    /\ Len(LastDraws) = 3
    /\ LastDraws[1].what = "line"
    /\ LastDraws[1].page = 2
    /\ LastDraws[2].page = 2

\* C6: every text baseline and every header rule is drawn within the vertical
\* margins of its page.
C6_DrawsWithinMargins ==
    \A k \in DOMAIN drawn :
        MARGIN_Y <= drawn[k].at /\ drawn[k].at <= PAGE_H - MARGIN_Y

\* A line drawn first on a new page, after the page before was filled down to
\* less than a line above the bottom margin.
C6_Witness ==
    /\ did = "line"
    /\ drawn[1].page = 2
    /\ drawn[1].cy = PAGE_H - MARGIN_Y
    /\ prev.page = 1
    /\ prev.at - MARGIN_Y < 2 * drawn[1].size

\* C12: buildResumePdf never fails on the characters of its input: for every
\* text it sanitizes, wraps and draws, no call of the font throws.
C12_Original == need # "error"

\* C13: the label of a section header and its rule are drawn on the same
\* page, the rule below the label and not below the bottom margin: when the
\* room left does not hold both, the page break comes before the label.
C13_HeaderAndRuleOnOnePage ==
    did = "header" =>
        /\ Len(drawn) = 2
        /\ drawn[1].what = "header"
        /\ drawn[2].what = "rule"
        /\ drawn[2].page = drawn[1].page
        /\ drawn[2].at < drawn[1].at
        /\ drawn[2].at >= MARGIN_Y

\* A header whose label and rule moved to a new page together: the draw
\* before it is on the page before.
C13_Witness ==
    /\ did = "header"
    /\ prev # NoDraw
    /\ prev.page + 1 = drawn[1].page
    /\ drawn[2].page = drawn[1].page

\* C14: a section other than NAME and CONTACT draws one header, a label and
\* a rule, before the first of its lines; NAME and CONTACT draw none; a draw
\* of a line of the section, on the section's first page or on a later one,
\* is never a header.
C14_OneHeaderFirstInSection ==
    /\ \A k \in DOMAIN LastDraws :
            LET d == LastDraws[k]
            IN  /\ d.key \in {K_NAME, K_CONTACT} => d.what = "line"
                /\ d.key \notin {K_NAME, K_CONTACT} =>
                       (d.what \in {"header", "rule"} <=> d.line = 0)
    /\ did = "header" => Len(drawn) = 2 /\ drawn[1].what = "header"
                                       /\ drawn[2].what = "rule"
    /\ (todo = NoTodo /\ count.secs > 0 /\ count.lines = 0
            /\ secKey \notin {K_NAME, K_CONTACT}) =>
           did = "header" /\ drawn[1].sec = count.secs

\* A section that overflows: a line of an EXPERIENCE section drawn on the
\* page after the page of the section's draw before it.
C14_Witness ==
    /\ did = "line"
    /\ drawn # <<>>
    /\ drawn[1].key = K_EXPERIENCE
    /\ prev.sec = drawn[1].sec
    /\ prev.what = "line"
    /\ prev.page + 1 = drawn[1].page

\* C15: the sections are drawn in the order of the loop, with one cursor: of
\* two consecutive draws the later one belongs to the same or a later section
\* and lands on the same or a later page, and on the same page not above the
\* earlier one; every text line drawn is a line of the content of its own
\* section, also when the key of the section has occurred before.
C15_SectionsInOrderOneCursor ==
    /\ \A k \in 1..(Len(LastDraws) - 1) :
            LET d == LastDraws[k]
                e == LastDraws[k + 1]
            IN  /\ d.sec <= e.sec
                /\ d.page <= e.page
                /\ d.page = e.page => e.at <= d.at
    /\ \A k \in DOMAIN drawn :
            /\ drawn[k].sec \in 1..count.secs
            /\ drawn[k].sec = count.secs => drawn[k].key = secKey
            /\ drawn[k].what = "line" =>
                   \E o \in {ItemOps([key  |-> drawn[k].key,
                                      part |-> drawn[k].part])[drawn[k].idx]} :
                       o.op = "line" /\ drawn[k].txt = sanitize(o.text)

\* A key that occurs twice: the last draw of a NAME section and, after it,
\* the first draw of the next section, a NAME section with another content.
C15_Witness ==
    /\ drawn # <<>>
    /\ prev.key = K_NAME
    /\ drawn[1].key = K_NAME
    /\ prev.sec + 1 = drawn[1].sec
    /\ prev.txt # drawn[1].txt
    /\ prev.page = drawn[1].page

\* C16: the document always has at least one page; a build that ends without
\* having met a section returns one page on which nothing is drawn.
C16_BlankPageForNoSections ==
    /\ pages >= 1
    /\ count.secs = 0 =>
           /\ pages = 1
           /\ drawn = <<>>
           /\ prev = NoDraw
           /\ y = PAGE_H - MARGIN_Y

\* The build of an input without sections has returned.
C16_Witness ==
    /\ need = "done"
    /\ count.secs = 0
    /\ pages = 1
    /\ drawn = <<>>

\* C17 as stated: in EXPERIENCE and in EDUCATION every draw of a non-empty
\* line that does not begin with "-" or "*" is bold at body size, and the
\* operation of the line before its first draw lowers the cursor.
C17_Original ==
    \A k \in DOMAIN drawn :
        LET d == drawn[k]
        IN  (/\ d.key \in {K_EXPERIENCE, K_EDUCATION}
             /\ d.what = "line"
             /\ ~IsBullet(SampleLine[d.part])) =>
                /\ d.font = "bold"
                /\ d.size = SZ_BODY
                /\ d.idx > 1
                /\ \E o \in {ItemOps([key |-> d.key, part |-> d.part])[1]} :
                       o.op = "space" /\ o.dy > 0

\* The line after its first character and the white space that follows it.
AfterMarker(line) ==
    LET starts == {i \in 2..Len(line) : ~IsSpace(line[i])}
    IN  IF starts = {} THEN <<>>
        ELSE SubSeq(line, CHOOSE i \in starts : \A j \in starts : i <= j, Len(line))

\* The sample lines that begin with "-" or "*", each wrapped as a bullet.
BulletLines ==
    [p \in {q \in DOMAIN SampleLine : IsBullet(SampleLine[q])} |->
        wrapWords(<<45, 32>> \o AfterMarker(SampleLine[p]), "regular", SZ_BULLET,
                  CONTENT_W - 14 * Pt)]

\* C18: in EXPERIENCE and EDUCATION every draw of a line that begins with "-"
\* or "*" is a text line in the regular font at bullet size and at the
\* indented x; it is, in order, a line of the wrap, to the content width
\* minus the indent, of "- " followed by the line without its first marker
\* and the white space after it; the draws of a bullet end with the last
\* line of that wrap.
C18_BulletsStrippedIndentedWrapped ==
    /\ \A k \in DOMAIN drawn :
            LET d == drawn[k]
            IN  (/\ d.key \in {K_EXPERIENCE, K_EDUCATION}
                 /\ d.line >= 1
                 /\ IsBullet(SampleLine[d.part])) =>
                    /\ d.what = "line"
                    /\ d.font = "regular"
                    /\ d.size = SZ_BULLET
                    /\ d.x = MARGIN_X + 14 * Pt
                    /\ d.idx \in DOMAIN BulletLines[d.part]
                    /\ d.txt = BulletLines[d.part][d.idx]
                    /\ \/ widthOfTextAtSize("regular", d.txt, SZ_BULLET)
                              <= CONTENT_W - 14 * Pt
                       \/ Len(LineTokens(d.txt)) = 1
                    /\ (todo = NoTodo /\ need # "error") =>
                           d.idx = Len(BulletLines[d.part])

\* A continuation line of an EDUCATION bullet, drawn on the page after the
\* page of the bullet's line before it.
C18_Witness ==
    /\ did = "line"
    /\ drawn # <<>>
    /\ drawn[1].key = K_EDUCATION
    /\ drawn[1].part = "tallBullet"
    /\ drawn[1].txt[1] # 45
    /\ prev.part = "tallBullet"
    /\ prev.idx + 1 = drawn[1].idx
    /\ prev.page + 1 = drawn[1].page

\* The sample lines of SKILLS with a colon: the label, up to and with the
\* first colon, its width with the space after it, and the value wrapped to
\* the width the label leaves.
SkillsSplit ==
    [p \in {q \in LinesFor("skills") : \E i \in DOMAIN SampleLine[q] : SampleLine[q][i] = 58} |->
        LET line  == SampleLine[p]
            colon == CHOOSE i \in DOMAIN line :
                         line[i] = 58 /\ \A j \in 1..(i - 1) : line[j] # 58
            label == sanitize(SubSeq(line, 1, colon))
            width == widthOfTextAtSize("bold", label \o <<32>>, SZ_BODY)
        IN  [label |-> label,
             width |-> width,
             value |-> wrapWords(SubSeq(line, colon + 1, Len(line)), "regular",
                                 SZ_BODY, CONTENT_W - width)]]

\* The sample lines of SKILLS without a colon, wrapped to the content width.
SkillsPlain ==
    [p \in {q \in LinesFor("skills") : SampleLine[q] # <<>> /\ q \notin DOMAIN SkillsSplit} |->
        wrapWords(SampleLine[p], "regular", SZ_BODY, CONTENT_W)]

\* The draws of the SKILLS lines, as claimed but for the width of the first
\* line of the value.
SkillsLayout ==
    /\ did = "skills" =>
           /\ Len(drawn) = 2
           /\ drawn[1].what = "label"
           /\ drawn[2].what = "value"
    /\ \A k \in DOMAIN drawn :
            LET d == drawn[k]
            IN  (d.key = K_SKILLS /\ d.line >= 1) =>
                    /\ d.size = SZ_BODY
                    /\ d.what = "label" =>
                           /\ d.font = "bold"
                           /\ d.x = MARGIN_X
                           /\ d.txt = SkillsSplit[d.part].label
                    /\ d.what = "value" =>
                           /\ d.font = "regular"
                           /\ d.page = drawn[1].page
                           /\ d.at = drawn[1].at
                           /\ d.x = MARGIN_X + SkillsSplit[d.part].width
                           /\ d.x > MARGIN_X
                           /\ d.txt = SkillsSplit[d.part].value[1]
                    /\ d.what = "line" =>
                           /\ d.font = "regular"
                           /\ d.x = MARGIN_X
                           /\ IF d.part \in DOMAIN SkillsSplit
                              THEN /\ d.idx \in 2..Len(SkillsSplit[d.part].value)
                                   /\ d.txt = SkillsSplit[d.part].value[d.idx]
                              ELSE /\ d.idx \in DOMAIN SkillsPlain[d.part]
                                   /\ d.txt = SkillsPlain[d.part][d.idx]

\* The first line of the value ends at or before the right content margin.
ValueFits(d) ==
    d.x + widthOfTextAtSize("regular", d.txt, SZ_BODY) <= MARGIN_X + CONTENT_W

\* C19 as stated: the SKILLS lines are drawn as claimed, and the first line of
\* the value lies within the width the label leaves.
C19_Original ==
    /\ SkillsLayout
    /\ did = "skills" => ValueFits(drawn[2])

\* C19: a SKILLS line with ":" is split at its first colon; the label, with
\* the colon, is drawn bold at the left content margin and the first wrapped
\* line of the value on the same page and baseline to its right, within the
\* width the label leaves when it holds more than one token; the further
\* lines of the value are drawn at the left content margin; a line without
\* ":" is wrapped as regular text.
C19_SkillsLabelThenValue ==
    /\ SkillsLayout
    /\ (did = "skills" /\ Len(LineTokens(drawn[2].txt)) > 1) => ValueFits(drawn[2])

\* The first continuation line of a value whose first line, of three tokens,
\* is drawn after the label.
C19_Witness ==
    /\ did = "line"
    /\ drawn # <<>>
    /\ drawn[1].key = K_SKILLS
    /\ drawn[1].part = "colonTwo"
    /\ drawn[1].idx = 2
    /\ drawn[1].x = MARGIN_X
    /\ prev.what = "value"
    /\ Len(LineTokens(prev.txt)) = 3
    /\ prev.x > MARGIN_X

\* The positions of the non-empty lines of a content, and the n-th of them.
Filled(lines) == {i \in DOMAIN lines : lines[i] # <<>>}

NthFilled(lines, n) ==
    lines[CHOOSE i \in Filled(lines) : Cardinality({j \in Filled(lines) : j <= i}) = n]

\* C20: every draw of a NAME section is a text line, the first the first
\* non-empty line of the content in the bold font at name size in black, the
\* second the second non-empty line in the regular font at subtitle size in
\* gray; there is no third; when the section comes to its closing space it
\* has drawn as many lines as the content has non-empty lines, up to two.
C20_NameThenSubtitleOnly ==
    /\ \A k \in DOMAIN LastDraws :
            LET d == LastDraws[k]
            IN  d.key = K_NAME =>
                    /\ d.what = "line"
                    /\ d.x = MARGIN_X
                    /\ d.idx \in {1, 2}
                    /\ d.idx <= Cardinality(Filled(SampleContent[d.part]))
                    /\ d.txt = sanitize(NthFilled(SampleContent[d.part], d.idx))
                    /\ d.idx = 1 =>
                           d.font = "bold" /\ d.size = SZ_NAME /\ d.color = "black"
                    /\ d.idx = 2 =>
                           d.font = "regular" /\ d.size = SZ_SUBTITLE /\ d.color = "gray"
    /\ (todo # NoTodo /\ todo.item.key = K_NAME /\ CurOp.op = "space") =>
           LET n == Cardinality(Filled(SampleContent[todo.item.part]))
           IN  /\ n = 0 => \A k \in DOMAIN drawn : drawn[k].sec < count.secs
               /\ n > 0 => /\ Len(drawn) = 1
                           /\ drawn[1].sec = count.secs
                           /\ drawn[1].idx = IF n >= 2 THEN 2 ELSE 1

\* The subtitle of a NAME section of three non-empty lines, drawn after its
\* name, with only the closing space left to do.
C20_Witness ==
    /\ did = "line"
    /\ drawn # <<>>
    /\ drawn[1].key = K_NAME
    /\ drawn[1].part = "four"
    /\ drawn[1].idx = 2
    /\ drawn[1].txt = <<98>>
    /\ prev.sec = drawn[1].sec
    /\ prev.txt = <<97>>
    /\ prev.size = SZ_NAME
    /\ todo # NoTodo
    /\ CurOp.op = "space"

\* The non-empty sample lines of a section with an unrecognised key that can
\* be encoded, each wrapped to the content width as regular body text.
FallbackLines ==
    [p \in {q \in LinesFor("fallback") :
                SampleLine[q] # <<>> /\ ~MeasureThrows(sanitize(SampleLine[q]))} |->
        wrapWords(SampleLine[p], "regular", SZ_BODY, CONTENT_W)]

\* C21: a section with an unrecognised key draws a header whose label is the
\* key itself, and then every draw of the section is a line of the wrap of a
\* non-empty content line as regular body text at the left content margin,
\* the content lines in their order and the wrapped lines of each in theirs.
C21_FallbackHeaderIsKeyThenParagraphs ==
    /\ \A k \in DOMAIN drawn :
            LET d == drawn[k]
            IN  SectionPolicy(d.key) = "fallback" =>
                    /\ d.what = "header" => d.txt = d.key /\ d.x = MARGIN_X
                    /\ d.what \in {"header", "rule", "line"}
                    /\ d.what = "line" =>
                           /\ d.font = "regular"
                           /\ d.size = SZ_BODY
                           /\ d.color = "black"
                           /\ d.x = MARGIN_X
                           /\ d.part \in DOMAIN FallbackLines
                           /\ d.idx \in DOMAIN FallbackLines[d.part]
                           /\ d.txt = FallbackLines[d.part][d.idx]
                           /\ (todo = NoTodo /\ need # "error") =>
                                  d.idx = Len(FallbackLines[d.part])
    /\ \A k \in 1..(Len(LastDraws) - 1) :
            LET d == LastDraws[k]
                e == LastDraws[k + 1]
            IN  (SectionPolicy(e.key) = "fallback" /\ d.sec = e.sec) =>
                    \/ d.what = "header" /\ e.what = "rule"
                    \/ d.what = "rule" /\ e.what = "line" /\ e.idx = 1
                    \/ d.what = "line" /\ e.what = "line" /\
                           \/ d.line = e.line /\ e.idx = d.idx + 1
                           \/ d.line < e.line /\ e.idx = 1
                                /\ d.idx = Len(FallbackLines[d.part])

\* The second content line of a section with the key CERT, drawn after the
\* only wrapped line of the first.
C21_Witness ==
    /\ did = "line"
    /\ drawn # <<>>
    /\ drawn[1].key = K_OTHER
    /\ drawn[1].line = 2
    /\ drawn[1].idx = 1
    /\ prev.sec = drawn[1].sec
    /\ prev.line = 1
    /\ prev.what = "line"
    /\ prev.txt = <<97>>

\* The operation of the build that made the draw d.
OpOf(d) == ItemOps([key |-> d.key, part |-> d.part])[d.idx]

\* Every text drawn is a fixed point of sanitize, and a line drawn by a
\* wrapped line, or as the first line of a SKILLS value, is the line as the
\* wrap measured and returned it.
DrawnAsMeasured ==
    \A k \in DOMAIN drawn :
        LET d == drawn[k]
        IN  /\ d.what # "rule" => sanitize(d.txt) = d.txt
            /\ (d.what = "line" /\ d.key # K_NAME) => d.txt = OpOf(d).text
            /\ d.what = "value" => d.txt = OpOf(d).first

\* C22 as stated: the texts drawn are fixed points of sanitize and are drawn
\* as measured, and the offset of a SKILLS value from the left content margin
\* is the width of the label as drawn.
C22_Original ==
    /\ DrawnAsMeasured
    /\ did = "skills" =>
           drawn[2].x - MARGIN_X = widthOfTextAtSize("bold", drawn[1].txt, SZ_BODY)

\* C22: the texts drawn are fixed points of sanitize and are drawn as
\* measured, and the offset of a SKILLS value from the left content margin is
\* the width of the label as drawn followed by one space.
C22_DrawnTextIsMeasuredText ==
    /\ DrawnAsMeasured
    /\ did = "skills" =>
           drawn[2].x - MARGIN_X =
               widthOfTextAtSize("bold", drawn[1].txt \o <<32>>, SZ_BODY)

\* The label and the value of a SKILLS line with curly quotes and an
\* ellipsis, drawn as sanitize left them and as they were measured.
C22_Witness ==
    /\ did = "skills"
    /\ drawn[1].part = "colonCurly"
    /\ drawn[1].txt = <<34, 97, 34, 58>>
    /\ drawn[2].txt = <<46, 46, 46, 97>>
    /\ drawn[2].x > MARGIN_X + widthOfTextAtSize("bold", drawn[1].txt, SZ_BODY)

\* C29: a line of several tokens drawn by addWrapped, or as a line of a SKILLS
\* value, ends at or left of the right content margin.
C29_WrappedLinesEndInsideMargin ==
    \A k \in DOMAIN drawn :
        LET d == drawn[k]
        IN  (/\ d.what \in {"line", "value"}
             /\ d.key # K_NAME
             /\ Len(LineTokens(d.txt)) > 1) =>
                d.x + widthOfTextAtSize(d.font, d.txt, d.size) <= PAGE_W - MARGIN_X

\* A first line of a SKILLS value, of three tokens, that ends inside the
\* margin and would not with the token of the continuation line drawn next.
C29_Witness ==
    /\ did = "line"
    /\ drawn # <<>>
    /\ drawn[1].key = K_SKILLS
    /\ drawn[1].part = "colonTwo"
    /\ prev.what = "value"
    /\ Len(LineTokens(prev.txt)) = 3
    /\ prev.x + widthOfTextAtSize("regular", prev.txt, SZ_BODY) <= PAGE_W - MARGIN_X
    /\ prev.x + widthOfTextAtSize("regular", JoinSpace(prev.txt, drawn[1].txt), SZ_BODY)
           > PAGE_W - MARGIN_X

\* C27: addLine draws the baseline of its text size below the cursor, on the
\* current page, and leaves the cursor one line height below where it drew;
\* of two lines that one addWrapped draws one after the other on a page, the
\* second is drawn with the cursor one line height below the first.
C27_LineHeightPerWrappedLine ==
    /\ did = "line" =>
           /\ Len(drawn) = 1
           /\ drawn[1].at = drawn[1].cy - drawn[1].size
           /\ drawn[1].page = pages
           /\ y = drawn[1].cy - OpOf(drawn[1]).lineH
    /\ (/\ did = "line"
        /\ drawn[1].key # K_NAME
        /\ prev.what = "line"
        /\ prev.sec = drawn[1].sec
        /\ prev.line = drawn[1].line) =>
           /\ drawn[1].idx = prev.idx + 1
           /\ OpOf(drawn[1]).lineH = OpOf(prev).lineH
           /\ prev.page = drawn[1].page =>
                  drawn[1].cy = prev.cy - OpOf(prev).lineH

\* The third line of a wrapped paragraph, drawn on the page of the second
\* and two line heights below the cursor of the first.
C27_Witness ==
    /\ did = "line"
    /\ drawn # <<>>
    /\ drawn[1].key = K_SUMMARY
    /\ drawn[1].part = "tall"
    /\ drawn[1].idx = 3
    /\ prev.part = "tall"
    /\ prev.idx = 2
    /\ prev.page = drawn[1].page
    /\ y = prev.cy - 2 * Times(SZ_BODY, 155)

\* C28 as stated: a step adds at most one page and removes none, and every
\* page after the first has a draw on it: once a page is added, the latest
\* draw is on the last page.
C28_Original ==
    /\ [][pages' \in {pages, pages + 1}]_vars
    /\ [](pages > 1 =>
            LastDraws # <<>> /\ LastDraws[Len(LastDraws)].page = pages)

(***************************************************************************)
(* POST /api/analyze, src/src/app/api/analyze/route.ts: the requests of    *)
(* one signed-up user.  The handler runs from one await to the next        *)
(* without interruption; between two awaits the other requests, the        *)
(* database and the calendar move.  An action is one such stretch: what    *)
(* the awaited call did, then the handler's code up to its next await or   *)
(* its return.                                                             *)
(***************************************************************************)
\* The requests the user sends, at most this many at once.
MaxRequests == 2

\* The calendar days the requests may span.
MaxDays == 2

DAILY_LIMIT == 5

Requests == 1..MaxRequests

Days == 1..MaxDays

\* A request that has not run yet: status 0 is no response, today 0 is not
\* read, pdf, saved and counted tell how steps 6-7, 8 and 9 ended.
NoReq ==
    [pc |-> "form", status |-> 0, today |-> 0, currentCount |-> 0, calls |-> 0,
     emailSent |-> FALSE, pdf |-> "none", saved |-> "none", counted |-> "none"]

\* return NextResponse.json(..., { status }).
Respond(q, status) == [q EXCEPT !.pc = "done", !.status = status]

\* const isNewDay = !profile || profile.last_reset !== today;
isNewDay(row, today) == row = NoProfile \/ row.last_reset # today

\* A count that is not reset on a new day.
currentCount_noReset(row, today) == IF row = NoProfile THEN 0 ELSE row.daily_count

\* const currentCount = isNewDay ? 0 : (profile.daily_count ?? 0);
currentCount(row, today) == IF isNewDay(row, today) THEN 0 ELSE row.daily_count

\* The user signed up, so the trigger made the profile row, or the row is
\* missing; the user was given some analyses today, one request at a time,
\* each of which counted itself.
InitRoute ==
    /\ text = <<>>
    /\ wrapArgs = None
    /\ result = None
    /\ stage = "route"
    /\ BuildIdle
    /\ reqs = [r \in Requests |-> NoReq]
    /\ analyses = {}
    /\ clock = 1
    /\ \E c \in 0..DAILY_LIMIT :
        /\ served = [d \in Days |-> IF d = 1 THEN c ELSE 0]
        /\ profile \in {[daily_count |-> c, last_reset |-> 1]}
                          \cup (IF c = 0 THEN {NoProfile} ELSE {})

\* 1. Parse and validate the form data.
ParseForm(r) ==
    /\ reqs[r].pc = "form"
    /\ \E valid \in BOOLEAN :
        reqs' = [reqs EXCEPT ![r] =
                    IF valid THEN [@ EXCEPT !.pc = "auth"] ELSE Respond(@, 400)]
    /\ UNCHANGED <<textVars, buildVars, profile, analyses, clock, served>>

\* 2. Auth check; with a user, today is read and the profile is asked for.
AuthCheck(r) ==
    /\ reqs[r].pc = "auth"
    /\ \E user \in BOOLEAN :
        reqs' = [reqs EXCEPT ![r] =
                    IF user THEN [@ EXCEPT !.pc = "rate", !.today = clock]
                    ELSE Respond(@, 401)]
    /\ UNCHANGED <<textVars, buildVars, profile, analyses, clock, served>>

\* 3. Rate limit: the profile row arrives, the count is taken from it.
RateLimit(r) ==
    /\ reqs[r].pc = "rate"
    /\ \E n \in {currentCount(profile, reqs[r].today)} :
        reqs' = [reqs EXCEPT ![r] =
                    IF n >= DAILY_LIMIT THEN Respond([@ EXCEPT !.currentCount = n], 429)
                    ELSE [@ EXCEPT !.pc = "extract", !.currentCount = n]]
    /\ UNCHANGED <<textVars, buildVars, profile, analyses, clock, served>>

\* 4. Extract the text of the PDF; then both Claude calls are started.
ExtractText(r) ==
    /\ reqs[r].pc = "extract"
    /\ \E readable \in BOOLEAN :
        reqs' = [reqs EXCEPT ![r] =
                    IF readable THEN [@ EXCEPT !.pc = "claude", !.calls = 2]
                    ELSE Respond(@, 400)]
    /\ UNCHANGED <<textVars, buildVars, profile, analyses, clock, served>>

\* 5. Promise.all of runAnalysis and runRewrite settles.
ClaudeCalls(r) ==
    /\ reqs[r].pc = "claude"
    /\ \E answered \in BOOLEAN :
        reqs' = [reqs EXCEPT ![r] =
                    IF answered THEN [@ EXCEPT !.pc = "pdf"] ELSE Respond(@, 502)]
    /\ UNCHANGED <<textVars, buildVars, profile, analyses, clock, served>>

\* A handler that does not catch the throw of steps 6 and 7.
PdfEmail_fatal(r) ==
    /\ reqs[r].pc = "pdf"
    /\ \E how \in {"sent", "pdfFailed", "mailFailed"} :
        reqs' = [reqs EXCEPT ![r] =
                    IF how = "sent"
                    THEN [@ EXCEPT !.pc = "persist", !.pdf = how, !.emailSent = TRUE]
                    ELSE Respond([@ EXCEPT !.pdf = how], 500)]
    /\ UNCHANGED <<textVars, buildVars, profile, analyses, clock, served>>

\* 6. and 7. Build the PDF and send the email; a throw of either is caught.
\* Then the insert into analyses is sent.
PdfEmail(r) ==
    /\ reqs[r].pc = "pdf"
    /\ \E how \in {"sent", "pdfFailed", "mailFailed"} :
        reqs' = [reqs EXCEPT ![r] =
                    [@ EXCEPT !.pc = "persist", !.pdf = how, !.emailSent = (how = "sent")]]
    /\ UNCHANGED <<textVars, buildVars, profile, analyses, clock, served>>

\* 8. The insert into analyses ends; its error is logged.  Then the upsert
\* of the profile is sent.
Persist(r) ==
    /\ reqs[r].pc = "persist"
    /\ \E insertError \in BOOLEAN :
        /\ analyses' = IF insertError THEN analyses ELSE analyses \cup {r}
        /\ reqs' = [reqs EXCEPT ![r] =
                      [@ EXCEPT !.pc = "counter",
                                !.saved = IF insertError THEN "error" ELSE "ok"]]
    /\ UNCHANGED <<textVars, buildVars, profile, clock, served>>

\* 9. and 10. The upsert of the profile ends, its outcome is not looked
\* at; the result is returned.
UpdateCounter(r) ==
    /\ reqs[r].pc = "counter"
    /\ \E upsertError \in BOOLEAN :
        /\ profile' = IF upsertError THEN profile
                      ELSE [daily_count |-> reqs[r].currentCount + 1,
                            last_reset |-> reqs[r].today]
        /\ reqs' = [reqs EXCEPT ![r] =
                      Respond([@ EXCEPT !.counted = IF upsertError THEN "error" ELSE "ok"],
                              200)]
    /\ served' = [served EXCEPT ![reqs[r].today] = @ + 1]
    /\ UNCHANGED <<textVars, buildVars, analyses, clock>>

\* Midnight (UTC): new Date().toISOString().slice(0, 10) changes.
Midnight ==
    /\ stage = "route"
    /\ clock < MaxDays
    /\ clock' = clock + 1
    /\ UNCHANGED <<textVars, buildVars, reqs, profile, analyses, served>>

NextRoute ==
    \/ \E r \in Requests : ParseForm(r)
    \/ \E r \in Requests : AuthCheck(r)
    \/ \E r \in Requests : RateLimit(r)
    \/ \E r \in Requests : ExtractText(r)
    \/ \E r \in Requests : ClaudeCalls(r)
    \/ \E r \in Requests : PdfEmail(r)
    \/ \E r \in Requests : Persist(r)
    \/ \E r \in Requests : UpdateCounter(r)
    \/ Midnight

SpecRoute == InitRoute /\ [][NextRoute]_vars

(***************************************************************************)
(* Claims about POST /api/analyze.                                         *)
(***************************************************************************)
ErrorStatus == {400, 401, 429, 502}

\* A request that read a same-day count of DAILY_LIMIT or more was answered
\* 429 and started no Claude call.
LimitReadIsRefused ==
    \A r \in Requests :
        reqs[r].currentCount >= DAILY_LIMIT =>
            reqs[r].status = 429 /\ reqs[r].calls = 0

\* C24: a user is never given more than 5 successful analyses (both Claude
\* calls made, the result returned) on one calendar day, however the user's
\* requests interleave; and a request that reads a same-day count of 5 or
\* more is answered 429 and makes no Claude call.
C24_Original ==
    /\ \A d \in Days : served[d] <= DAILY_LIMIT
    /\ LimitReadIsRefused

\* Two requests that both read the count 4 and were both given the result.
C24_BothPassedTheLimit ==
    \E r, q \in Requests :
        /\ r # q
        /\ reqs[r].status = 200 /\ reqs[q].status = 200
        /\ reqs[r].calls = 2 /\ reqs[q].calls = 2
        /\ reqs[r].today = reqs[q].today
        /\ reqs[r].currentCount = DAILY_LIMIT - 1
        /\ reqs[q].currentCount = DAILY_LIMIT - 1

PdfFailed(r) == reqs[r].pdf \in {"pdfFailed", "mailFailed"}

SameDayCount(row, day) ==
    IF row # NoProfile /\ row.last_reset = day THEN row.daily_count ELSE 0

\* C30: a step that answers a request with 400, 401, 429 or 502 leaves the
\* profile row and the analyses table as they were, and such a request has
\* written neither; the profile row changes only in the step that returns
\* the result of a request, to one more than the same-day count the request
\* read (1 on a new day), with last_reset the day the request read as
\* today.
C30_OnlyResultStepWrites ==
    /\ [](\A r \in Requests :
            reqs[r].status \in ErrorStatus =>
                /\ r \notin analyses
                /\ reqs[r].saved = "none"
                /\ reqs[r].counted = "none")
    /\ [][/\ \A r \in Requests :
                (reqs[r].status = 0 /\ reqs'[r].status \in ErrorStatus) =>
                    profile' = profile /\ analyses' = analyses
          /\ \A r \in Requests :
                (reqs[r].pc = "rate" /\ reqs'[r].pc # "rate") =>
                    reqs'[r].currentCount = SameDayCount(profile, reqs[r].today)
          /\ profile' # profile =>
                \E r \in Requests :
                    /\ reqs[r].status = 0
                    /\ reqs'[r].status = 200
                    /\ profile'.daily_count = reqs[r].currentCount + 1
                    /\ profile'.last_reset = reqs[r].today
          /\ analyses' # analyses =>
                \E r \in Requests :
                    /\ reqs[r].pc = "persist"
                    /\ analyses' = analyses \cup {r}]_vars

\* A request was refused with 429 on one day and wrote nothing; on the
\* next day a request read the old row, was given its result and set the
\* counter to 1 and last_reset to that day.
C30_Witness ==
    \E r, q \in Requests :
        /\ reqs[r].status = 429
        /\ r \notin analyses
        /\ reqs[q].status = 200
        /\ reqs[q].counted = "ok"
        /\ reqs[q].today = 2
        /\ reqs[q].currentCount = 0
        /\ served[1] = DAILY_LIMIT
        /\ profile = [daily_count |-> 1, last_reset |-> 2]

====
